---- MODULE Spec2Model ----
(***************************************************************************)
(* Model of the asus-touchpad daemon (src/src/main.rs): the supervisor     *)
(* (run_outer / run_retry / run), the event loop (Context) and the         *)
(* key-press engine (NoTouch), with the virtual keyboard (udev), the       *)
(* hardware bus (device) and the physical touchpad as environment.         *)
(*                                                                         *)
(* Every external call can fail; its outcome is an input of the action     *)
(* that performs it.  The calls an action performed, in order and with     *)
(* their outcome, are left in the variable io.                             *)
(***************************************************************************)
EXTENDS Integers, Sequences, FiniteSets, TLC

\* ---------------------------------------------------------------- bounds

\* Largest number of events one fetch_events() call delivers in the model.
MaxBatch == 2

\* Largest width and height of the calibration bounds over which the
\* geometry is checked for every position.
GeoMaxW == 40
GeoMaxH == 30

\* ------------------------------------------------------ program constants

TRY_TIMES == 5
COLS == 5
ROWS == 4
LEFT_OFFSET == 7
RIGHT_OFFSET == 7
TOP_OFFSET == 10
BOTTOM_OFFSET == 4

KEYS ==
  << << "KEY_KP7", "KEY_KP8",   "KEY_KP9",     "KEY_KPSLASH",    "KEY_BACKSPACE" >>,
     << "KEY_KP4", "KEY_KP5",   "KEY_KP6",     "KEY_KPASTERISK", "KEY_BACKSPACE" >>,
     << "KEY_KP1", "KEY_KP2",   "KEY_KP3",     "KEY_KPMINUS",    "KEY_5" >>,
     << "KEY_KP0", "KEY_KPDOT", "KEY_KPENTER", "KEY_KPPLUS",     "KEY_KPEQUAL" >> >>

\* Option::None of `pressed`, and of the Option results of the geometry.
None == "None"

\* The keys of the grid (what KEYS.into_iter().flatten() yields).
GridKeys == { KEYS[r][c] : r \in 1..ROWS, c \in 1..COLS }

\* The two 13-byte payloads written to the hardware bus.
ACTIVATE_MSG   == << 5, 0, 61, 3, 6, 0, 7, 0, 13, 20, 3, 1, 173 >>
DEACTIVATE_MSG == << 5, 0, 61, 3, 6, 0, 7, 0, 13, 20, 3, 0, 173 >>

\* The calibration bounds a session can read from the opened touchpad.
BoundsSet == { [minx |-> 0, maxx |-> 1000, miny |-> 0, maxy |-> 800] }

\* The values ABS_MT_POSITION_X / ABS_MT_POSITION_Y events carry in the model:
\* with the bounds above they reach the shortcut zone (40,40), the toggle
\* zone (960,40) and (960,50), plain grid cells, the KEY_5 cell (900,500) and
\* positions left of, above and right of the grid.
XValues == { 40, 500, 900, 960 }
YValues == { 40, 50, 500 }

\* ------------------------------------------------------------ input events

KeyEvent(key, value) == [type |-> "KEY", code |-> key, value |-> value]
SynReport == [type |-> "SYNCHRONIZATION", code |-> "SYN_REPORT", value |-> 0]

\* One external call of an action, with its outcome.  An emit is one write
\* of all its events: it delivers all of them (ok) or none.  All coordinates
\* of the model are far inside i32, where `100 * what` does not overflow.
Emit(events, ok)   == [call |-> "emit", arg |-> events, ok |-> ok]
Transfer(msg, ok)  == [call |-> "transfer", arg |-> msg, ok |-> ok]
Grab(ok)           == [call |-> "grab", arg |-> << >>, ok |-> ok]
Ungrab(ok)         == [call |-> "ungrab", arg |-> << >>, ok |-> ok]
FetchEvents(ok)    == [call |-> "fetch_events", arg |-> << >>, ok |-> ok]

\* ---------------------------------------------------------------- Percent

\* Rust's integer division truncates toward zero.
TruncDiv(a, b) ==
  IF (a >= 0) = (b > 0) THEN (IF a >= 0 THEN a ELSE -a) \div (IF b > 0 THEN b ELSE -b)
  ELSE -((IF a >= 0 THEN a ELSE -a) \div (IF b > 0 THEN b ELSE -b))

\* Percent::div: (100 * what).checked_div(by).unwrap_or_default()
PercentDiv(what, by) == IF by = 0 THEN 0 ELSE TruncDiv(100 * what, by)

\* impl Mul<i32> for Percent: rhs * self.0 / 100
PercentMul(p, rhs) == TruncDiv(rhs * p, 100)

\* ---------------------------------------------------------------- geometry
\* s is the NoTouch value: [minx, maxx, miny, maxy, x, y, pressed, numlock].

width(s)  == s.maxx - s.minx
height(s) == s.maxy - s.miny

left_percent(s)  == PercentDiv(s.x - s.minx, width(s))
right_percent(s) == PercentDiv(s.maxx - s.x, width(s))
top_percent(s)   == PercentDiv(s.y - s.miny, height(s))

numlock_hit(s)    == right_percent(s) < 5 /\ top_percent(s) < 9
calculator_hit(s) == left_percent(s) < 6 /\ top_percent(s) < 7

left_np(s)   == s.minx + PercentMul(LEFT_OFFSET, width(s))
right_np(s)  == s.maxx - PercentMul(RIGHT_OFFSET, width(s))
top_np(s)    == s.miny + PercentMul(TOP_OFFSET, height(s))
bottom_np(s) == s.maxy - PercentMul(BOTTOM_OFFSET, height(s))
width_np(s)  == right_np(s) - left_np(s)
height_np(s) == bottom_np(s) - top_np(s)

\* Option<i32> / Option<usize> / Option<[Key; COLS]> of the geometry:
\* Nothing is None, Some(v) is Some(v).
Nothing == << >>
Some(v) == << v >>

\* Mutant of non_neg_sub: the sign of the difference is not tested.
non_neg_sub_unsigned(a, b) == Some(a - b)

\* non_neg_sub: a - b when it is not negative, else None.
non_neg_sub(a, b) == IF a - b >= 0 THEN Some(a - b) ELSE Nothing

\* Mutant of column_raw: the divisor lacks the + 1.
column_raw_unbiased(s) ==
  LET d == non_neg_sub(s.x, left_np(s)) IN
  IF d = Nothing \/ width_np(s) = 0 THEN Nothing
  ELSE LET q == TruncDiv(d[1] * COLS, width_np(s)) IN
       IF q < 0 THEN Nothing ELSE Some(q)

\* column_raw / row_raw: None for a negative offset, a zero divisor or a
\* negative quotient (try_into::<usize>() fails).
column_raw(s) ==
  LET d == non_neg_sub(s.x, left_np(s)) IN
  IF d = Nothing \/ width_np(s) + 1 = 0 THEN Nothing
  ELSE LET q == TruncDiv(d[1] * COLS, width_np(s) + 1) IN
       IF q < 0 THEN Nothing ELSE Some(q)

\* Mutant of row_raw: the offset is scaled by COLS, as in column_raw.
row_raw_cols(s) ==
  LET d == non_neg_sub(s.y, top_np(s)) IN
  IF d = Nothing \/ height_np(s) + 1 = 0 THEN Nothing
  ELSE LET q == TruncDiv(d[1] * COLS, height_np(s) + 1) IN
       IF q < 0 THEN Nothing ELSE Some(q)

row_raw(s) ==
  LET d == non_neg_sub(s.y, top_np(s)) IN
  IF d = Nothing \/ height_np(s) + 1 = 0 THEN Nothing
  ELSE LET q == TruncDiv(d[1] * ROWS, height_np(s) + 1) IN
       IF q < 0 THEN Nothing ELSE Some(q)

\* row(): KEYS.get(row_raw).copied()
row(s) ==
  LET r == row_raw(s) IN
  IF r = Nothing THEN Nothing
  ELSE IF r[1] >= ROWS THEN Nothing ELSE Some(KEYS[r[1] + 1])

\* column(row): row.get(column_raw).copied(); None is Option<Key>::None.
column(s, keyrow) ==
  LET c == column_raw(s) IN
  IF c = Nothing THEN None
  ELSE IF c[1] >= COLS THEN None ELSE keyrow[c[1] + 1]

\* key(): self.column(self.row()?)
key(s) == LET keyrow == row(s) IN IF keyrow = Nothing THEN None ELSE column(s, keyrow[1])

\* ------------------------------------------------------------ NoTouch
\* Each operation returns what it leaves behind: ok (Ok(()) or Err), the
\* calls it made (io) and, where it writes them, `numlock` and `pressed`.
\* hwOk / emitOk are the outcomes of the bus transfer (it succeeds and reports
\* exactly one message) and of the virtual keyboard's emit, should the
\* operation reach them.

\* Mutant of activate: the outcome of the transfer and of the emit is dropped.
activate_unchecked(hwOk, emitOk) ==
  [ok |-> TRUE,
   io |-> << Transfer(ACTIVATE_MSG, hwOk),
             Emit(<< KeyEvent("KEY_NUMLOCK", 1) >>, emitOk) >>]

activate(hwOk, emitOk) ==
  IF ~hwOk
  THEN [ok |-> FALSE, io |-> << Transfer(ACTIVATE_MSG, FALSE) >>]
  ELSE [ok |-> emitOk,
        io |-> << Transfer(ACTIVATE_MSG, TRUE),
                  Emit(<< KeyEvent("KEY_NUMLOCK", 1) >>, emitOk) >>]

\* Mutant of deactivate: the payload of activate is written.
deactivate_enable_byte(hwOk, emitOk) ==
  IF ~emitOk
  THEN [ok |-> FALSE, io |-> << Emit(<< KeyEvent("KEY_NUMLOCK", 0) >>, FALSE) >>]
  ELSE [ok |-> hwOk,
        io |-> << Emit(<< KeyEvent("KEY_NUMLOCK", 0) >>, TRUE),
                  Transfer(ACTIVATE_MSG, hwOk) >>]

deactivate(hwOk, emitOk) ==
  IF ~emitOk
  THEN [ok |-> FALSE, io |-> << Emit(<< KeyEvent("KEY_NUMLOCK", 0) >>, FALSE) >>]
  ELSE [ok |-> hwOk,
        io |-> << Emit(<< KeyEvent("KEY_NUMLOCK", 0) >>, TRUE),
                  Transfer(DEACTIVATE_MSG, hwOk) >>]

\* Mutant of release: the Shift-up is emitted whether or not a key is held.
release_unconditional(s, emitOk) ==
  [ok |-> emitOk, numlock |-> s.numlock, pressed |-> None,
   io |-> << Emit(IF s.pressed # None
                  THEN << KeyEvent("KEY_LEFTSHIFT", 0), KeyEvent(s.pressed, 0) >>
                  ELSE << KeyEvent("KEY_LEFTSHIFT", 0) >>, emitOk) >>]

\* Mutant of release: `pressed` is read, not taken.
release_keep(s, emitOk) ==
  IF s.pressed # None
  THEN [ok |-> emitOk, numlock |-> s.numlock, pressed |-> s.pressed,
        io |-> << Emit(<< KeyEvent("KEY_LEFTSHIFT", 0),
                          KeyEvent(s.pressed, 0) >>, emitOk) >>]
  ELSE [ok |-> TRUE, numlock |-> s.numlock, pressed |-> None, io |-> << >>]

\* release: self.pressed.take() clears `pressed` before the emit is tried.
release(s, emitOk) ==
  IF s.pressed # None
  THEN [ok |-> emitOk, numlock |-> s.numlock, pressed |-> None,
        io |-> << Emit(<< KeyEvent("KEY_LEFTSHIFT", 0),
                          KeyEvent(s.pressed, 0) >>, emitOk) >>]
  ELSE [ok |-> TRUE, numlock |-> s.numlock, pressed |-> None, io |-> << >>]

\* Mutant of try_calculator: the burst lacks the key-up.
try_calculator_down_only(emitOk) ==
  [ok |-> emitOk,
   io |-> << Emit(<< KeyEvent("KEY_CALC", 1), SynReport >>, emitOk) >>]

try_calculator(emitOk) ==
  [ok |-> emitOk,
   io |-> << Emit(<< KeyEvent("KEY_CALC", 1), SynReport,
                     KeyEvent("KEY_CALC", 0) >>, emitOk) >>]

\* calculator: logs the error of try_calculator and returns nothing.
calculator(emitOk) == [ok |-> TRUE, io |-> try_calculator(emitOk).io]

\* The key-down of press: Shift-down and 5-down for KEY_5, else the key.
KeyDownEvents(k) ==
  IF k = "KEY_5"
  THEN << KeyEvent("KEY_LEFTSHIFT", 1), KeyEvent("KEY_5", 1) >>
  ELSE << KeyEvent(k, 1) >>

\* Mutant of press_idle: the grid is looked up without the `self.numlock` test.
press_idle_any_mode(s, hwOk, emitOk) ==
  IF numlock_hit(s) THEN
    LET r == IF ~s.numlock THEN activate(hwOk, emitOk)
                           ELSE deactivate(hwOk, emitOk)
    IN [ok |-> r.ok, numlock |-> ~s.numlock, pressed |-> s.pressed, io |-> r.io]
  ELSE IF calculator_hit(s) THEN
    [ok |-> TRUE, numlock |-> s.numlock, pressed |-> s.pressed,
     io |-> calculator(emitOk).io]
  ELSE IF key(s) # None THEN
    [ok |-> emitOk, numlock |-> s.numlock,
     pressed |-> IF emitOk THEN key(s) ELSE s.pressed,
     io |-> << Emit(KeyDownEvents(key(s)), emitOk) >>]
  ELSE [ok |-> TRUE, numlock |-> s.numlock, pressed |-> s.pressed, io |-> << >>]

\* press, inside `if self.pressed.is_none()`.
press_idle(s, hwOk, emitOk) ==
  IF numlock_hit(s) THEN
    LET r == IF ~s.numlock THEN activate(hwOk, emitOk)
                           ELSE deactivate(hwOk, emitOk)
    IN [ok |-> r.ok, numlock |-> ~s.numlock, pressed |-> s.pressed, io |-> r.io]
  ELSE IF calculator_hit(s) THEN
    [ok |-> TRUE, numlock |-> s.numlock, pressed |-> s.pressed,
     io |-> calculator(emitOk).io]
  ELSE IF s.numlock /\ key(s) # None THEN
    [ok |-> emitOk, numlock |-> s.numlock,
     pressed |-> IF emitOk THEN key(s) ELSE s.pressed,
     io |-> << Emit(KeyDownEvents(key(s)), emitOk) >>]
  ELSE [ok |-> TRUE, numlock |-> s.numlock, pressed |-> s.pressed, io |-> << >>]

\* Mutant of press: without the `if self.pressed.is_none()` guard.
press_unguarded(s, hwOk, emitOk) == press_idle(s, hwOk, emitOk)

press(s, hwOk, emitOk) ==
  IF s.pressed = None
  THEN press_idle(s, hwOk, emitOk)
  ELSE [ok |-> TRUE, numlock |-> s.numlock, pressed |-> s.pressed, io |-> << >>]

\* -------------------------------------------------- the virtual keyboard

\* The events of the emits of a call log that succeeded, in order.
RECURSIVE Emitted(_)
Emitted(log) ==
  IF log = << >> THEN << >>
  ELSE (IF Head(log).call = "emit" /\ Head(log).ok THEN Head(log).arg ELSE << >>)
       \o Emitted(Tail(log))

\* The bus messages of a call log whose transfer was attempted, in order.
RECURSIVE Transfers(_)
Transfers(log) ==
  IF log = << >> THEN << >>
  ELSE (IF Head(log).call = "transfer" THEN << Head(log).arg >> ELSE << >>)
       \o Transfers(Tail(log))

\* The keys down on the virtual keyboard after it received events.
RECURSIVE KeysDown(_, _)
KeysDown(down, events) ==
  IF events = << >> THEN down
  ELSE LET e == Head(events) IN
       KeysDown(IF e.type # "KEY" THEN down
                ELSE IF e.value = 1 THEN down \cup {e.code}
                ELSE down \ {e.code},
                Tail(events))

\* ------------------------------------------------------------------ state

VARIABLES
  pc,         \* where run_outer is: "discover", "discover_sleep", "open",
              \* "wait", "batch", "unwind", "retry_sleep", "done"
  tries,      \* run(): discovery attempts left
  alive,      \* a Context (and its NoTouch) exists
  minx, maxx, miny, maxy, x, y, pressed, numlock,   \* the NoTouch fields
  grabbed,    \* the physical touchpad is exclusively captured
  left,       \* events of the fetched batch not processed yet
  kbd,        \* keys down on the session's virtual keyboard
  io,         \* the external calls of the last action, with their outcome
  op,         \* the last action
  signalled,  \* a Term / Quit / Int signal has arrived
  touched     \* a touch-down was processed and no touch-up since

vars == << pc, tries, alive, minx, maxx, miny, maxy, x, y, pressed, numlock,
           grabbed, left, kbd, io, op, signalled, touched >>

bounds == << minx, maxx, miny, maxy >>

\* The NoTouch value the methods read.
self == [minx |-> minx, maxx |-> maxx, miny |-> miny, maxy |-> maxy,
         x |-> x, y |-> y, pressed |-> pressed, numlock |-> numlock]

Init ==
  /\ pc = "discover" /\ tries = TRY_TIMES
  /\ alive = FALSE
  /\ minx = 0 /\ maxx = 0 /\ miny = 0 /\ maxy = 0 /\ x = 0 /\ y = 0
  /\ pressed = None /\ numlock = FALSE
  /\ grabbed = FALSE /\ left = 0 /\ kbd = {}
  /\ io = << >> /\ op = "init"
  /\ signalled = FALSE /\ touched = FALSE

\* ------------------------------------------------------------- supervisor

\* run(), one pass of the discovery loop: the device list cannot be read
\* ("error"), names no touchpad ("missing") or names one ("found").
Discover(res) ==
  /\ pc = "discover"
  /\ \/ /\ res = "error"
        /\ pc' = "retry_sleep" /\ UNCHANGED tries
     \/ /\ res = "found"
        /\ pc' = "open" /\ UNCHANGED tries
     \/ /\ res = "missing"
        /\ tries' = tries - 1
        /\ pc' = IF tries - 1 = 0 THEN "retry_sleep" ELSE "discover_sleep"
  /\ io' = << >> /\ op' = "discover"
  /\ UNCHANGED << alive, bounds, x, y, pressed, numlock, grabbed, left, kbd,
                  signalled, touched >>

\* run(): Timer::after(TRY_SLEEP) of the discovery loop has elapsed.
DiscoverTimer ==
  /\ pc = "discover_sleep"
  /\ pc' = "discover"
  /\ io' = << >> /\ op' = "discover_timer"
  /\ UNCHANGED << tries, alive, bounds, x, y, pressed, numlock, grabbed, left,
                  kbd, signalled, touched >>

\* run(): opening the touchpad, reading its bounds, building the virtual
\* keyboard and the bus device, and constructing the Context.
Open(ok, b) ==
  /\ pc = "open"
  /\ IF ok
     THEN /\ pc' = "wait" /\ alive' = TRUE
          /\ minx' = b.minx /\ maxx' = b.maxx /\ miny' = b.miny /\ maxy' = b.maxy
          /\ x' = 0 /\ y' = 0 /\ pressed' = None /\ numlock' = FALSE
          /\ grabbed' = FALSE /\ left' = 0 /\ kbd' = {} /\ touched' = FALSE
     ELSE /\ pc' = "retry_sleep"
          /\ UNCHANGED << alive, bounds, x, y, pressed, numlock, grabbed, left,
                          kbd, touched >>
  /\ io' = << >> /\ op' = "open"
  /\ UNCHANGED << tries, signalled >>

\* Mutant of RetryTimer: run_retry returns the error of run() (`run().await?`).
RetryTimerReturn ==
  /\ pc = "retry_sleep"
  /\ pc' = "done"
  /\ io' = << >> /\ op' = "retry_timer"
  /\ UNCHANGED << tries, alive, bounds, x, y, pressed, numlock, grabbed, left,
                  kbd, signalled, touched >>

\* run_retry(): the failed run() was logged and Timer::after(TRY_SLEEP) has
\* elapsed; the loop calls run() again, which resets its tries.
RetryTimer ==
  /\ pc = "retry_sleep"
  /\ pc' = "discover" /\ tries' = TRY_TIMES
  /\ io' = << >> /\ op' = "retry_timer"
  /\ UNCHANGED << alive, bounds, x, y, pressed, numlock, grabbed, left, kbd,
                  signalled, touched >>

\* run_outer(): the signal branch of the race completes while run_retry is
\* suspended; the run_retry future is dropped, and with it a live Context.
Signal ==
  /\ pc \in {"discover_sleep", "wait", "retry_sleep"}
  /\ signalled' = TRUE
  /\ pc' = IF alive THEN "unwind" ELSE "done"
  /\ io' = << >> /\ op' = "signal"
  /\ UNCHANGED << tries, alive, bounds, x, y, pressed, numlock, grabbed, left,
                  kbd, touched >>

\* Drop for Context, then Drop for NoTouch (its field): ungrab, logged on
\* failure, then deactivate, logged on failure.  The `touchpad` field is
\* dropped last: the device is closed, which ends a capture that a failed
\* ungrab left behind.
Drop(ungrabOk, hwOk, emitOk) ==
  /\ pc = "unwind"
  /\ LET r == deactivate(hwOk, emitOk) IN
     /\ io' = << Ungrab(ungrabOk) >> \o r.io
     /\ kbd' = KeysDown(kbd, Emitted(r.io))
  /\ grabbed' = FALSE
  /\ alive' = FALSE
  /\ pc' = IF signalled THEN "done" ELSE "retry_sleep"
  /\ op' = "drop"
  /\ UNCHANGED << tries, bounds, x, y, pressed, numlock, left, signalled,
                  touched >>

\* ------------------------------------------------------------- event loop

\* Context::step: the touchpad is readable and with_touchpad fetches the
\* events, n of them, or fails.
Fetch(ok, n) ==
  /\ pc = "wait"
  /\ io' = << FetchEvents(ok) >> /\ op' = "fetch"
  /\ IF ok THEN pc' = "batch" /\ left' = n
           ELSE pc' = "unwind" /\ left' = 0
  /\ UNCHANGED << tries, alive, bounds, x, y, pressed, numlock, grabbed, kbd,
                  signalled, touched >>

\* What with_touchpad does with the result r of release() or press(): the
\* `?` ends the batch on an error.
Handled(r) ==
  /\ numlock' = r.numlock /\ pressed' = r.pressed
  /\ io' = r.io
  /\ kbd' = KeysDown(kbd, Emitted(r.io))
  /\ IF r.ok THEN pc' = "batch" /\ left' = left - 1
             ELSE pc' = "unwind" /\ left' = 0
  /\ UNCHANGED << tries, alive, bounds, x, y, grabbed, signalled >>

\* with_touchpad: BTN_TOOL_FINGER with value 1.
TouchDown(hwOk, emitOk) ==
  /\ pc = "batch" /\ left > 0
  /\ Handled(press(self, hwOk, emitOk))
  /\ op' = "press" /\ touched' = TRUE

\* with_touchpad: BTN_TOOL_FINGER with value 0.
TouchUp(emitOk) ==
  /\ pc = "batch" /\ left > 0
  /\ Handled(release(self, emitOk))
  /\ op' = "release" /\ touched' = FALSE

\* with_touchpad: ABS_MT_POSITION_X.
AbsX(v) ==
  /\ pc = "batch" /\ left > 0
  /\ x' = v /\ left' = left - 1
  /\ io' = << >> /\ op' = "abs_x"
  /\ UNCHANGED << pc, tries, alive, bounds, y, pressed, numlock, grabbed, kbd,
                  signalled, touched >>

\* with_touchpad: ABS_MT_POSITION_Y.
AbsY(v) ==
  /\ pc = "batch" /\ left > 0
  /\ y' = v /\ left' = left - 1
  /\ io' = << >> /\ op' = "abs_y"
  /\ UNCHANGED << pc, tries, alive, bounds, x, pressed, numlock, grabbed, kbd,
                  signalled, touched >>

\* with_touchpad: any other event (and BTN_TOOL_FINGER with another value).
OtherEvent ==
  /\ pc = "batch" /\ left > 0
  /\ left' = left - 1
  /\ io' = << >> /\ op' = "other"
  /\ UNCHANGED << pc, tries, alive, bounds, x, y, pressed, numlock, grabbed,
                  kbd, signalled, touched >>

\* Mutant of StepEnd: the `else` branch with its ungrab is missing.
StepEndGrabOnly(ok) ==
  /\ pc = "batch" /\ left = 0
  /\ io' = IF numlock THEN << Grab(ok) >> ELSE << >>
  /\ op' = "step_end"
  /\ IF ok \/ ~numlock
     THEN pc' = "wait" /\ grabbed' = (grabbed \/ numlock)
     ELSE pc' = "unwind" /\ UNCHANGED grabbed
  /\ UNCHANGED << tries, alive, bounds, x, y, pressed, numlock, left, kbd,
                  signalled, touched >>

\* Context::step after the batch: grab when numlock, else ungrab.
StepEnd(ok) ==
  /\ pc = "batch" /\ left = 0
  /\ io' = << IF numlock THEN Grab(ok) ELSE Ungrab(ok) >> /\ op' = "step_end"
  /\ IF ok THEN pc' = "wait" /\ grabbed' = numlock
           ELSE pc' = "unwind" /\ UNCHANGED grabbed
  /\ UNCHANGED << tries, alive, bounds, x, y, pressed, numlock, left, kbd,
                  signalled, touched >>

Next ==
  \/ \E res \in {"error", "found", "missing"} : Discover(res)
  \/ DiscoverTimer
  \/ \E ok \in BOOLEAN, b \in BoundsSet : Open(ok, b)
  \/ RetryTimer
  \/ Signal
  \/ \E ungrabOk \in BOOLEAN, hwOk \in BOOLEAN, emitOk \in BOOLEAN :
        Drop(ungrabOk, hwOk, emitOk)
  \/ \E ok \in BOOLEAN, n \in 1..MaxBatch : Fetch(ok, n)
  \/ \E hwOk \in BOOLEAN, emitOk \in BOOLEAN : TouchDown(hwOk, emitOk)
  \/ \E emitOk \in BOOLEAN : TouchUp(emitOk)
  \/ \E v \in XValues : AbsX(v)
  \/ \E v \in YValues : AbsY(v)
  \/ OtherEvent
  \/ \E ok \in BOOLEAN : StepEnd(ok)

Spec == Init /\ [][Next]_vars

\* ------------------------------------------------- the geometry, exhaustively
\* A session with the numpad enabled and no key held, about to process a
\* touch-down, for every bounds of GeoBoundsSet (degenerate and inverted ones
\* included) and every position on, around and beyond the pad.

GeoBoundsSet ==
  { [minx |-> a, maxx |-> a + w, miny |-> 1, maxy |-> 1 + h] :
      a \in {0, 2}, w \in {-4, 0, 13, GeoMaxW}, h \in {0, 9, GeoMaxH} }

GeoXs == -5 .. GeoMaxW + 5
GeoYs == -5 .. GeoMaxH + 5

GeoInit ==
  /\ pc = "batch" /\ tries = TRY_TIMES /\ alive = TRUE
  /\ \E b \in GeoBoundsSet :
        minx = b.minx /\ maxx = b.maxx /\ miny = b.miny /\ maxy = b.maxy
  /\ x \in GeoXs /\ y \in GeoYs
  /\ pressed = None /\ numlock = TRUE
  /\ grabbed = TRUE /\ left = 1 /\ kbd = {"KEY_NUMLOCK"}
  /\ io = << FetchEvents(TRUE) >> /\ op = "fetch"
  /\ signalled = FALSE /\ touched = FALSE

GeoNext == \E hwOk \in BOOLEAN, emitOk \in BOOLEAN : TouchDown(hwOk, emitOk)

GeoSpec == GeoInit /\ [][GeoNext]_vars

\* The timers elapse and the destructors run to their end.
DropAny ==
  \E ungrabOk \in BOOLEAN, hwOk \in BOOLEAN, emitOk \in BOOLEAN :
     Drop(ungrabOk, hwOk, emitOk)

LiveSpec ==
  Spec /\ WF_vars(RetryTimer) /\ WF_vars(DiscoverTimer) /\ WF_vars(DropAny)

\* ----------------------------------------------------------------- claims

InSeq(e, seq) == \E i \in 1..Len(seq) : seq[i] = e

\* Some call of the log failed.
AnyFailed(log) == \E i \in 1..Len(log) : ~log[i].ok

\* The emit of the shortcut burst.
IsShortcutBurst(c) == c.call = "emit" /\ c.arg[1].code = "KEY_CALC"

\* Some key-up among the events is for a key that is not down when it arrives.
RECURSIVE UnmatchedUp(_, _)
UnmatchedUp(down, events) ==
  IF events = << >> THEN FALSE
  ELSE LET e == Head(events) IN
       \/ e.type = "KEY" /\ e.value = 0 /\ e.code \notin down
       \/ UnmatchedUp(KeysDown(down, << e >>), Tail(events))

\* The step did nothing: no call, `pressed` and `numlock` as before.
NoEffect == io' = << >> /\ pressed' = pressed /\ numlock' = numlock /\ kbd' = kbd

\* C1: in a session at most one grid key is down on the virtual keyboard, and
\* a press while `pressed` is Some emits nothing, writes nothing to the bus
\* and changes neither `pressed` nor `numlock`.
C1_AtMostOneKeyDown ==
  /\ [](alive => Cardinality(kbd \cap GridKeys) <= 1)
  /\ [][(op' = "press" /\ pressed # None) => NoEffect]_vars

\* C1 witness: a touch-down was processed while a key was held.
C1_Witness ==
  alive /\ op = "press" /\ io = << >> /\ pressed # None /\ pressed \in kbd

\* C2 (as claimed): every teardown of a Controller emits NUM_LOCK off and
\* attempts the disable write.
C2_TeardownDisables ==
  [][op' = "drop" =>
       /\ InSeq(KeyEvent("KEY_NUMLOCK", 0), Emitted(io'))
       /\ InSeq(DEACTIVATE_MSG, Transfers(io'))]_vars

\* C3 (as claimed): a teardown while a key is held emits that key's key-up.
C3_TeardownReleasesKey ==
  [][(op' = "drop" /\ pressed # None) =>
       InSeq(KeyEvent(pressed, 0), Emitted(io'))]_vars

\* C4 (as claimed): a toggle-zone touch-down whose bus write or indicator
\* emit fails leaves `numlock` as it was.
C4_FailedToggleKeepsNumlock ==
  [][(op' = "press" /\ pressed = None /\ numlock_hit(self) /\ AnyFailed(io'))
       => numlock' = numlock]_vars

\* C5 (as claimed): a touch-up delivers no key-up for a key that is not down
\* on the virtual keyboard; release emits Left-Shift up only for a key that
\* went down with Shift.
C5_NoUnmatchedKeyUp ==
  [][op' = "release" => ~UnmatchedUp(kbd, Emitted(io'))]_vars

\* C6 (as claimed): `pressed` is Some exactly when a grid key is down on the
\* virtual keyboard.
C6_PressedIffKeyDown ==
  alive => ((pressed # None) <=> (kbd \cap GridKeys # {}))

\* C7 (as claimed): a touch-down that follows another touch-down with no
\* touch-up between them has no effect.
C7_OnlyFirstTouchDownActs ==
  [][(op' = "press" /\ touched) => NoEffect]_vars

\* C7 (amended): a key is held only within a run of touch-downs, and once one
\* of them has put a key down every later one has no effect until a touch-up.
C7_TouchDownsAfterKeyDownIgnored ==
  /\ [](alive /\ pressed # None => touched)
  /\ [][(op' = "press" /\ touched /\ pressed # None) => NoEffect]_vars

\* C7 witness: a second touch-down while the key of the first is held.
C7_Witness ==
  alive /\ touched /\ op = "press" /\ io = << >> /\ pressed \in GridKeys

C9_RetryForever ==
  /\ []((pc \in {"unwind", "retry_sleep"} /\ ~signalled)
          => <>(op = "retry_timer" \/ signalled))
  /\ [](pc = "done" => signalled)
  /\ [][(op' = "open" /\ alive') => (numlock' = FALSE /\ pressed' = None)]_vars

\* C9 witness: run() is called again after a session that had toggled the
\* numpad on was torn down (its `numlock` is still in the dropped value).
C9_Witness ==
  op = "retry_timer" /\ pc = "discover" /\ ~signalled /\ ~alive /\ numlock

\* C10 (as claimed): after a signal no session is started, run_outer
\* completes, and the teardown of a live session releases the capture, emits
\* NUM_LOCK off and attempts the disable write.
C10_SignalTearsDown ==
  [][/\ signalled => op' \notin {"retry_timer", "discover", "open", "fetch"}
     /\ (op' = "signal" /\ ~alive) => pc' = "done"
     /\ (op' = "drop" /\ signalled) =>
          /\ pc' = "done"
          /\ InSeq(Ungrab(TRUE), io') \/ InSeq(Ungrab(FALSE), io')
          /\ InSeq(KeyEvent("KEY_NUMLOCK", 0), Emitted(io'))
          /\ InSeq(DEACTIVATE_MSG, Transfers(io'))]_vars

\* C11: whenever a step has completed (the loop waits for the next batch) the
\* touchpad is captured exactly when `numlock` is true, and once the session
\* is torn down the touchpad is not captured.
C11_GrabbedIffNumlock ==
  /\ (alive /\ pc = "wait") => (grabbed <=> numlock)
  /\ ~alive => ~grabbed

\* C11 witness: a step whose batch toggled the numpad on has completed with
\* the touchpad captured.
C11_Witness ==
  alive /\ pc = "wait" /\ op = "step_end" /\ numlock /\ grabbed
     /\ io = << Grab(TRUE) >>

\* Scenario A: bounds 0..1000 x 0..800, position (500,500), numpad enabled,
\* no key held.
AtScenarioA ==
  /\ alive /\ minx = 0 /\ maxx = 1000 /\ miny = 0 /\ maxy = 800
  /\ x = 500 /\ y = 500 /\ numlock /\ pressed = None

\* C12 (as claimed): a touch-down in scenario A resolves row 2 / column 2 and
\* emits and holds KP5.
C12_ScenarioA_KP5 ==
  [][(op' = "press" /\ AtScenarioA /\ ~AnyFailed(io')) =>
       /\ row_raw(self) = Some(2) /\ column_raw(self) = Some(2)
       /\ io' = << Emit(<< KeyEvent("KEY_KP5", 1) >>, TRUE) >>
       /\ pressed' = "KEY_KP5"]_vars

\* C12 (amended): a touch-down in scenario A resolves row 2 / column 2, counted
\* from 0, whose key is KP3; KP3 down is emitted and, when the emit succeeds,
\* recorded as held.
C12_ScenarioA_KP3 ==
  [][(op' = "press" /\ AtScenarioA) =>
       /\ row_raw(self) = Some(2) /\ column_raw(self) = Some(2)
       /\ key(self) = KEYS[2 + 1][2 + 1] /\ key(self) = "KEY_KP3"
       /\ \E ok \in BOOLEAN :
            /\ io' = << Emit(<< KeyEvent("KEY_KP3", 1) >>, ok) >>
            /\ pressed' = IF ok THEN "KEY_KP3" ELSE None]_vars

\* C12 witness: the touch-down of scenario A has put KP3 down.
C12_Witness ==
  /\ alive /\ op = "press" /\ x = 500 /\ y = 500 /\ numlock
  /\ pressed = "KEY_KP3" /\ "KEY_KP3" \in kbd

\* C13 (as claimed): the touch-down on the KEY_5 cell emits Shift-down then
\* 5-down in one emit, and the matching touch-up emits 5-up then Shift-up.
C13_ShiftedFiveOrder ==
  [][/\ (op' = "press" /\ pressed = None /\ pressed' = "KEY_5") =>
          io' = << Emit(<< KeyEvent("KEY_LEFTSHIFT", 1),
                           KeyEvent("KEY_5", 1) >>, TRUE) >>
     /\ (op' = "release" /\ pressed = "KEY_5" /\ ~AnyFailed(io')) =>
          io' = << Emit(<< KeyEvent("KEY_5", 0),
                           KeyEvent("KEY_LEFTSHIFT", 0) >>, TRUE) >>]_vars

\* The calls of a toggle to the new value nl, were none of them to fail:
\* activate writes and then emits, deactivate emits and then writes.
ToggleCall(nl, i, ok) ==
  LET ind == Emit(<< KeyEvent("KEY_NUMLOCK", IF nl THEN 1 ELSE 0) >>, ok)
      cmd == Transfer(IF nl THEN ACTIVATE_MSG ELSE DEACTIVATE_MSG, ok)
  IN IF nl THEN (IF i = 1 THEN cmd ELSE ind) ELSE (IF i = 1 THEN ind ELSE cmd)

\* A touch-down in the toggle zone with no key held.
ToggleTouchDown == op' = "press" /\ pressed = None /\ numlock_hit(self)

\* C14 (as claimed): a toggle-zone touch-down with no key held flips `numlock`
\* and makes exactly two calls, one mode command and one NUM_LOCK indicator
\* event, both for the new value, and no other emit.
C14_ToggleOneCommandOneIndicator ==
  [][ToggleTouchDown =>
       /\ numlock' = ~numlock /\ pressed' = pressed
       /\ Len(io') = 2
       /\ \A i \in 1..Len(io') : io'[i] = ToggleCall(numlock', i, io'[i].ok)]_vars

\* C14 (amended): it flips `numlock`, makes the first call of the toggle and,
\* exactly when that call succeeds, the second; it makes no other call.
C14_ToggleCallsUntilFailure ==
  [][ToggleTouchDown =>
       /\ numlock' = ~numlock /\ pressed' = pressed
       /\ Len(io') \in 1..2
       /\ (Len(io') = 2) <=> io'[1].ok
       /\ \A i \in 1..Len(io') : io'[i] = ToggleCall(numlock', i, io'[i].ok)]_vars

\* C14 witness: a touch-down at (960,50) has switched the numpad off with one
\* indicator event and one disable command.
C14_Witness ==
  /\ alive /\ op = "press" /\ x = 960 /\ y = 50 /\ ~numlock /\ pressed = None
  /\ io = << Emit(<< KeyEvent("KEY_NUMLOCK", 0) >>, TRUE),
             Transfer(DEACTIVATE_MSG, TRUE) >>

\* C15: a touch-down in the shortcut zone and outside the toggle zone, with no
\* key held, makes one call, the emit of the burst KEY_CALC down, SYN_REPORT,
\* KEY_CALC up, for either value of `numlock`; it writes nothing to the bus,
\* leaves `numlock`, `pressed` and the position as they were and the batch
\* goes on.
C15_ShortcutBurstOnly ==
  [][(op' = "press" /\ pressed = None /\ calculator_hit(self)
        /\ ~numlock_hit(self)) =>
       /\ \E ok \in BOOLEAN :
            io' = << Emit(<< KeyEvent("KEY_CALC", 1), SynReport,
                             KeyEvent("KEY_CALC", 0) >>, ok) >>
       /\ Transfers(io') = << >>
       /\ numlock' = numlock /\ pressed' = pressed /\ x' = x /\ y' = y
       /\ kbd' = kbd /\ grabbed' = grabbed /\ pc' = "batch"]_vars

\* C15 witness: the burst was emitted at (40,40) while the numpad was enabled.
C15_Witness ==
  /\ alive /\ op = "press" /\ x = 40 /\ y = 40 /\ numlock /\ pressed = None
  /\ io = << Emit(<< KeyEvent("KEY_CALC", 1), SynReport,
                     KeyEvent("KEY_CALC", 0) >>, TRUE) >>

\* C16: at a position left of left_np() or above top_np() key() is None, for
\* every bounds, and a touch-down there holds no key.
C16_NoKeyLeftOrAbove ==
  (alive /\ (x < left_np(self) \/ y < top_np(self))) =>
     /\ key(self) = None
     /\ op = "press" => pressed = None

\* C16 witness: a touch-down left of the grid, outside both hot zones, with
\* the numpad enabled, did nothing.
C16_Witness ==
  /\ alive /\ op = "press" /\ numlock /\ pressed = None /\ io = << >>
  /\ x < left_np(self) /\ y > top_np(self) /\ x > minx
  /\ ~numlock_hit(self) /\ ~calculator_hit(self)
  /\ width_np(self) > 0 /\ height_np(self) > 0

\* C17: with a positive usable width and height, a position inside the grid's
\* rectangle resolves KEYS[row][column] with column = (x - left_np()) * 5 /
\* (width_np() + 1) in 0..4 and row = (y - top_np()) * 4 / (height_np() + 1) in
\* 0..3; right of or below it, a column >= 5 or a row >= 4 resolves no key; and
\* the key a touch-down holds is the key of its position.
C17_KeyOfCell ==
  LET c == ((x - left_np(self)) * 5) \div (width_np(self) + 1)
      r == ((y - top_np(self)) * 4) \div (height_np(self) + 1)
  IN (alive /\ width_np(self) > 0 /\ height_np(self) > 0) =>
       /\ (/\ left_np(self) <= x /\ x <= right_np(self)
           /\ top_np(self) <= y /\ y <= bottom_np(self)) =>
             /\ c \in 0..4 /\ r \in 0..3
             /\ key(self) = KEYS[r + 1][c + 1]
       /\ (left_np(self) <= x /\ top_np(self) <= y /\ (c >= 5 \/ r >= 4)) =>
             key(self) = None
       /\ (op = "press" /\ pressed # None) => pressed = key(self)

\* C17 witness: a touch-down on the far corner of the grid's rectangle holds
\* the key of the last row and column.
C17_Witness ==
  /\ alive /\ op = "press" /\ width_np(self) > 0 /\ height_np(self) > 0
  /\ x = right_np(self) /\ y = bottom_np(self)
  /\ pressed = KEYS[ROWS][COLS]

\* C18: a touch-up with no key held emits nothing and changes nothing, so a
\* touch-up that follows a touch-up (or the start of the session) with no
\* touch-down between them is a no-op; after any touch-up no key is held.
C18_ReleaseIdempotent ==
  /\ [][(op' = "release" /\ pressed = None) =>
          (NoEffect /\ pc' = "batch" /\ x' = x /\ y' = y /\ grabbed' = grabbed)]_vars
  /\ [][(op' = "release" /\ ~touched) => NoEffect]_vars
  /\ [][op' = "release" => pressed' = None]_vars

\* C18 witness: a touch-up with no touch-down before it did nothing while the
\* numpad was enabled.
C18_Witness ==
  alive /\ op = "release" /\ io = << >> /\ pressed = None /\ numlock
        /\ pc = "batch" /\ ~touched

\* C19 (as claimed): every teardown attempts all its steps, whatever their
\* outcome: the ungrab, the NUM_LOCK-off emit and the disable write.
C19_TeardownStepsIndependent ==
  [][op' = "drop" =>
       /\ \E i \in 1..Len(io') : io'[i].call = "ungrab"
       /\ \E i \in 1..Len(io') :
            io'[i].call = "emit" /\ io'[i].arg = << KeyEvent("KEY_NUMLOCK", 0) >>
       /\ \E i \in 1..Len(io') :
            io'[i].call = "transfer" /\ io'[i].arg = DEACTIVATE_MSG]_vars

\* C20: a key is held only while `numlock` is true; a key becomes held only
\* from numlock true with no key held; `numlock` does not change while a key
\* is held, a toggle-zone touch-down then being ignored; and a touch-up with
\* a key held leaves numlock true and no key held.
C20_HeldOnlyWhenNumlock ==
  /\ [](alive /\ pressed # None => numlock)
  /\ [][(op' = "press" /\ pressed' # pressed) =>
          (pressed = None /\ numlock /\ numlock')]_vars
  /\ [][(pressed # None /\ op' # "open") => numlock' = numlock]_vars
  /\ [][(op' = "press" /\ pressed # None /\ numlock_hit(self)) => NoEffect]_vars
  /\ [][(op' = "release" /\ pressed # None) =>
          (pressed' = None /\ numlock')]_vars

\* C20 witness: a touch-down in the toggle zone while a key was held was
\* ignored.
C20_Witness ==
  /\ alive /\ op = "press" /\ io = << >> /\ numlock_hit(self)
  /\ pressed \in GridKeys /\ numlock

====
